---- MODULE Spec2Model ----
(***************************************************************************)
(* The stock dashboards of pranay784/stockcheck: the Streamlit app         *)
(* (app.py), the Flask app (web_dashboard.py) and the terminal script      *)
(* (stock_dashboard.py).  Each front-end asks the quote provider           *)
(* (finvizfinance) for a ticker's data and falls back to a literal record  *)
(* when the provider raises.                                               *)
(*                                                                         *)
(* Python strings that the code builds or transforms (tickers, company     *)
(* names, the 'Company' field) are sequences of one-character strings, so  *)
(* that strip(), upper() and f-string formatting are computed.  Other      *)
(* dictionary values are literals and are TLA+ strings.  Floats of the     *)
(* chart series are written in tenths (25.5 is 255).                       *)
(***************************************************************************)
EXTENDS Integers, Sequences, FiniteSets, TLC

VARIABLES
    dash,   \* the dashboard object of each front-end: ticker, quote_data, stock, company_name
    th,     \* each thread of control: its position, locals, return values and history
    ss,     \* the Streamlit session state: ticker_input, show_data
    acc,    \* history: which Flask requests touched each field of the module-level dashboard
    prog,   \* which program this behaviour runs
    lookup  \* the TickerLookup object (api_key) and the history of its last find_ticker call

vars == <<dash, th, ss, acc, prog, lookup>>

\* ------------------------------------------------------------------ bounds

\* Longest string a user types or a URL carries.
MaxLen == 2

\* The characters users type: a letter and a blank.
Chars == {"a", " "}

RECURSIVE StringsUpTo(_)
StringsUpTo(n) ==
    IF n = 0 THEN {<<>>}
    ELSE LET S == StringsUpTo(n - 1)
         IN  S \cup {Append(s, c) : s \in {x \in S : Len(x) = n - 1}, c \in Chars}

RawStrings == StringsUpTo(MaxLen)

\* ------------------------------------------------------------------ Python values

NoneV == [tag |-> "None"]
StrV(s) == [tag |-> "str", s |-> s]
Dict(items) == [tag |-> "dict", items |-> items]
EmptyItems == [k \in {} |-> "x"]

\* Python truthiness of None, a str and a dict.
Truthy(v) ==
    CASE v.tag = "None" -> FALSE
      [] v.tag = "str"  -> v.s # <<>>
      [] v.tag = "dict" -> DOMAIN v.items # {}
      [] OTHER          -> TRUE

\* str.upper() on one character.
UpperChar(c) == IF c = "a" THEN "A" ELSE c

\* str.upper()
Upper(s) == [i \in 1..Len(s) |-> UpperChar(s[i])]

IsSpace(c) == c = " "

RECURSIVE LStrip(_)
LStrip(s) == IF s # <<>> /\ IsSpace(Head(s)) THEN LStrip(Tail(s)) ELSE s

RECURSIVE RStrip(_)
RStrip(s) ==
    IF s # <<>> /\ IsSpace(s[Len(s)]) THEN RStrip(SubSeq(s, 1, Len(s) - 1)) ELSE s

\* str.strip()
Strip(s) == RStrip(LStrip(s))

\* ------------------------------------------------------------------ the provider

\* What a provider call does: it raises, or it returns a value.
Raise == [tag |-> "raise"]
Ret(v) == [tag |-> "ret", val |-> v]
Unasked == [tag |-> "unasked"]

\* The handle finvizfinance(ticker) returns.
Handle(t) == [tag |-> "stock", ticker |-> t]

\* The company name the provider reports for a ticker.
ProviderCompany(t) == t \o <<" ", "I", "n", "c", ".">>

\* A fundamentals record of the provider.
ProviderRecord(t) ==
    ("Company" :> ProviderCompany(t)) @@ ("Price" :> "189.84") @@ ("P/E" :> "31.2")

\* The answers of the five provider operations of a fetch.  ticker_fundament
\* answers with a record, with an empty record or with None, or raises.
ProviderOps == {"construct", "fundament", "description", "signal", "ratings"}

AllAnswers(op, t) ==
    CASE op = "construct"   -> {Raise, Ret(Handle(t))}
      [] op = "fundament"   -> {Raise, Ret(NoneV), Ret(Dict(EmptyItems)),
                                Ret(Dict(ProviderRecord(t)))}
      [] op = "description" -> {Raise, Ret("Designs and sells devices")}
      [] op = "signal"      -> {Raise, Ret("Top Gainers")}
      [] op = "ratings"     -> {Raise, Ret("Upgrade: Outperform")}
      [] OTHER              -> {Unasked}

\* Under the threaded server the interleavings are explored against a provider
\* that fails only in quote construction, ticker_fundament or ticker_description.
ThreadedAnswers(op, t) ==
    CASE op = "fundament" -> {Raise, Ret(Dict(ProviderRecord(t)))}
      [] op \in {"signal", "ratings"} -> AllAnswers(op, t) \ {Raise}
      [] OTHER -> AllAnswers(op, t)

ProviderAnswers(op, t) ==
    IF prog = "flask_threaded" THEN ThreadedAnswers(op, t) ELSE AllAnswers(op, t)

NoAnswers == [op \in ProviderOps |-> Unasked]

\* ------------------------------------------------------------------ the fallback records

\* str(v) inside an f-string.
Format(v) == IF v.tag = "str" THEN v.s ELSE <<"N", "o", "n", "e">>

\* f'Sample Company ({ticker})'
SampleCompany(t) ==
    <<"S", "a", "m", "p", "l", "e", " ", "C", "o", "m", "p", "a", "n", "y", " ", "(">>
        \o t \o <<")">>

\* The fields every fallback record has, whatever the front-end.
CommonFallback ==
    ("Sector" :> "Technology") @@ ("Industry" :> "Consumer Electronics") @@
    ("Country" :> "USA") @@ ("Market Cap" :> "$2.5T") @@
    ("Enterprise Value" :> "$2.4T") @@ ("Price" :> "$150.25") @@
    ("52W High" :> "$175.50") @@ ("52W Low" :> "$120.00") @@
    ("Volume" :> "45,231,100") @@ ("P/E" :> "25.5") @@ ("P/B" :> "8.2") @@
    ("P/S" :> "6.1") @@ ("PEG" :> "1.8") @@ ("ROE" :> "32.5%") @@
    ("ROA" :> "18.7%") @@ ("Profit Margin" :> "22.4%") @@
    ("Dividend" :> "$0.96") @@ ("Dividend %" :> "2.5%") @@
    ("Payout Ratio" :> "25.0%") @@ ("Recommendation" :> "Buy") @@
    ("Target Price" :> "$165.00") @@ ("Beta" :> "1.25") @@
    ("Description" :> "Sample company description") @@
    ("Signal" :> "Buy") @@ ("Ratings" :> "Positive")

\* A fallback record whose 'Company' leaves the ticker out.
WebFallbackNoTicker(t) ==
    Dict(("Company" :> SampleCompany(<<>>)) @@ ("ROI" :> "28.3%") @@
         ("Volatility" :> "25.2%") @@ CommonFallback)

\* A fallback that leaves the record empty.
WebFallbackEmpty(t) == Dict(EmptyItems)

\* The Flask app's fallback record for ticker t.
WebFallback(t) ==
    Dict(("Company" :> SampleCompany(t)) @@ ("ROI" :> "28.3%") @@
         ("Volatility" :> "25.2%") @@ CommonFallback)

\* A Streamlit fallback record with the terminal script's key for ROI.
StFallbackROIC(t) ==
    Dict(("Company" :> SampleCompany(t)) @@ ("ROIC" :> "28.3%") @@
         ("Volatility" :> "25.2%") @@ CommonFallback)

\* The Streamlit app's fallback record for ticker t.
StFallback(t) ==
    Dict(("Company" :> SampleCompany(t)) @@ ("ROI" :> "28.3%") @@
         ("Volatility" :> "25.2%") @@ CommonFallback)

\* The terminal script's fallback record: f'{self.company_name} ({self.ticker})',
\* ROIC for ROI, Volatility W and Volatility M for Volatility.
TermFallback(name, ticker) ==
    Dict(("Company" :> (Format(name) \o <<" ", "(">> \o Format(ticker) \o <<")">>)) @@
         ("ROIC" :> "28.3%") @@ ("Volatility W" :> "25.2%") @@
         ("Volatility M" :> "20.1%") @@ CommonFallback)

\* ------------------------------------------------------------------ fetch_company_data

\* One step result: the dashboard object and the caller's frame after the step.
Out(d, l) == [d |-> d, l |-> l]

Goto(l, pc) == [l EXCEPT !.pc = pc]

\* An optional field stored into a fresh dict, dropping the provider's fields.
TryStoreReplace(d, l, key, a, next) ==
    LET v == IF a.tag = "raise" THEN "N/A" ELSE a.val
    IN  IF d.quote_data.tag = "dict"
        THEN Out([d EXCEPT !.quote_data = Dict(key :> v)], Goto(l, next))
        ELSE Out(d, Goto(l, "fallback"))

\* An optional call whose failure reaches the enclosing handler.
TryStoreFallback(d, l, key, a, next) ==
    IF d.quote_data.tag = "dict" /\ a.tag # "raise"
    THEN Out([d EXCEPT !.quote_data = Dict((key :> a.val) @@ @.items)], Goto(l, next))
    ELSE Out(d, Goto(l, "fallback"))

\* An optional call whose failure leaves its key unset.
TryStoreSkip(d, l, key, a, next) ==
    IF d.quote_data.tag = "dict"
    THEN IF a.tag = "raise" THEN Out(d, Goto(l, next))
         ELSE Out([d EXCEPT !.quote_data = Dict((key :> a.val) @@ @.items)], Goto(l, next))
    ELSE Out(d, Goto(l, "fallback"))

\* try: x = stock.op(); self.quote_data[key] = x
\* except: self.quote_data[key] = 'N/A'
\* Item assignment on None raises TypeError in the try and again in the bare
\* except, so it leaves the handler and reaches the enclosing `except Exception`.
TryStore(d, l, key, a, next) ==
    LET v == IF a.tag = "raise" THEN "N/A" ELSE a.val
    IN  IF d.quote_data.tag = "dict"
        THEN Out([d EXCEPT !.quote_data = Dict((key :> v) @@ @.items)], Goto(l, next))
        ELSE Out(d, Goto(l, "fallback"))

\* A fallback path that reports failure.
WebFallbackReturnFalse == "False"

\* A fetch that goes on to the optional calls after a failure.
WebOnRaiseContinue == "description"

\* What fetch_company_data returns on its fallback path.
WebFallbackReturn == "True"
StFallbackReturn == "True"
TermFallbackReturn == "True"

\* Where the Flask fetch goes when quote construction or ticker_fundament raises.
WebOnRaise == "fallback"
StOnRaise == "fallback"
TermOnRaise == "fallback"

\* WebStockDashboard.fetch_company_data(ticker), one statement at a time.
WebFetchStep(d, l, a) ==
    CASE l.pc = "construct" ->
           IF a.tag = "raise" THEN Out(d, Goto(l, WebOnRaise))
           ELSE Out(d, [l EXCEPT !.stock = a.val, !.pc = "fundament"])
      [] l.pc = "fundament" ->
           IF a.tag = "raise" THEN Out(d, Goto(l, WebOnRaise))
           ELSE Out([d EXCEPT !.quote_data = a.val], Goto(l, "set_ticker"))
      [] l.pc = "set_ticker" ->
           Out([d EXCEPT !.ticker = StrV(l.ticker)], Goto(l, "set_stock"))
      [] l.pc = "set_stock" ->
           Out([d EXCEPT !.stock = l.stock], Goto(l, "description"))
      [] l.pc = "description" -> TryStore(d, l, "Description", a, "signal")
      [] l.pc = "signal" -> TryStore(d, l, "Signal", a, "ratings")
      [] l.pc = "ratings" -> TryStore(d, l, "Ratings", a, "return")
      [] l.pc = "return" -> Out(d, [l EXCEPT !.ret = "True", !.pc = "returned"])
      [] l.pc = "fallback" ->
           Out([d EXCEPT !.quote_data = WebFallback(l.ticker)], Goto(l, "fallback_ticker"))
      [] l.pc = "fallback_ticker" ->
           Out([d EXCEPT !.ticker = StrV(l.ticker)],
               [l EXCEPT !.ret = WebFallbackReturn, !.pc = "returned"])
      [] OTHER -> Out(d, l)

\* StreamlitStockDashboard.fetch_company_data(ticker), one statement at a time.
StFetchStep(d, l, a) ==
    CASE l.pc = "construct" ->
           IF a.tag = "raise" THEN Out(d, Goto(l, StOnRaise))
           ELSE Out(d, [l EXCEPT !.stock = a.val, !.pc = "fundament"])
      [] l.pc = "fundament" ->
           IF a.tag = "raise" THEN Out(d, Goto(l, StOnRaise))
           ELSE Out([d EXCEPT !.quote_data = a.val], Goto(l, "set_ticker"))
      [] l.pc = "set_ticker" ->
           Out([d EXCEPT !.ticker = StrV(l.ticker)], Goto(l, "set_stock"))
      [] l.pc = "set_stock" ->
           Out([d EXCEPT !.stock = l.stock], Goto(l, "description"))
      [] l.pc = "description" -> TryStore(d, l, "Description", a, "signal")
      [] l.pc = "signal" -> TryStore(d, l, "Signal", a, "ratings")
      [] l.pc = "ratings" -> TryStore(d, l, "Ratings", a, "return")
      [] l.pc = "return" -> Out(d, [l EXCEPT !.ret = "True", !.pc = "returned"])
      [] l.pc = "fallback" ->
           Out([d EXCEPT !.quote_data = StFallback(l.ticker)], Goto(l, "fallback_ticker"))
      [] l.pc = "fallback_ticker" ->
           Out([d EXCEPT !.ticker = StrV(l.ticker)],
               [l EXCEPT !.ret = StFallbackReturn, !.pc = "returned"])
      [] OTHER -> Out(d, l)

\* StockDashboard.fetch_company_data(), one statement at a time.  It takes the
\* ticker from self.ticker, stores the handle last and leaves self.ticker alone.
TermFetchStep(d, l, a) ==
    CASE l.pc = "construct" ->
           IF a.tag = "raise" THEN Out(d, Goto(l, TermOnRaise))
           ELSE Out(d, [l EXCEPT !.stock = a.val, !.pc = "fundament"])
      [] l.pc = "fundament" ->
           IF a.tag = "raise" THEN Out(d, Goto(l, TermOnRaise))
           ELSE Out([d EXCEPT !.quote_data = a.val], Goto(l, "description"))
      [] l.pc = "description" -> TryStore(d, l, "Description", a, "signal")
      [] l.pc = "signal" -> TryStore(d, l, "Signal", a, "ratings")
      [] l.pc = "ratings" -> TryStore(d, l, "Ratings", a, "set_stock")
      [] l.pc = "set_stock" ->
           Out([d EXCEPT !.stock = l.stock], Goto(l, "return"))
      [] l.pc = "return" -> Out(d, [l EXCEPT !.ret = "True", !.pc = "returned"])
      [] l.pc = "fallback" ->
           Out([d EXCEPT !.quote_data = TermFallback(d.company_name, d.ticker)],
               [l EXCEPT !.ret = TermFallbackReturn, !.pc = "returned"])
      [] OTHER -> Out(d, l)

\* The positions of a fetch, and those at which it calls the provider.
FetchPcs == {"construct", "fundament", "set_ticker", "set_stock", "description",
             "signal", "ratings", "return", "fallback", "fallback_ticker"}

\* ------------------------------------------------------------------ create_charts

Months == <<"Jan", "Feb", "Mar", "Apr", "May", "Jun">>
ChartColors == <<"#17BECF", "#FF6B6B", "#32CD32", "#FFD700">>

\* A title that takes the ticker from the stored handle when there is one.
TitleFromStock(d, suffix) ==
    (IF d.stock.tag = "stock" THEN d.stock.ticker ELSE Format(d.ticker)) \o <<suffix>>

\* f'{self.ticker} <suffix>': the ticker's characters, then the literal as one element.
Title(d, suffix) == Format(d.ticker) \o <<suffix>>

\* A price series that is not the literal of the source.
WebPriceYOther == <<100, 105, 102, 110, 108, 116>>

\* The series WebStockDashboard.create_charts plots.
WebPriceY == <<100, 105, 102, 110, 108, 115>>
WebVolumeY == <<1000000, 1200000, 900000, 1500000, 1300000, 1100000>>
WebValuationY == <<255, 82, 61, 18>>
WebPerformanceValues == <<325, 283, 187, 224>>

\* WebStockDashboard.create_charts(): traces and layouts as plain dicts.
WebCreateCharts(d) ==
    IF ~Truthy(d.quote_data) THEN Dict(EmptyItems)
    ELSE Dict(
        ("price_data" :> <<[x |-> Months, y |-> WebPriceY, mode |-> "lines+markers",
                            name |-> "Stock Price", type |-> "scatter"]>>) @@
        ("price_layout" :> [title |-> Title(d, " Price Performance (6 Months)"),
                            xaxis |-> "Month", yaxis |-> "Price ($)"]) @@
        ("volume_data" :> <<[x |-> Months, y |-> WebVolumeY, name |-> "Volume",
                             type |-> "bar"]>>) @@
        ("volume_layout" :> [title |-> Title(d, " Trading Volume (6 Months)"),
                             xaxis |-> "Month", yaxis |-> "Volume"]) @@
        ("valuation_data" :> <<[x |-> <<"P/E", "P/B", "P/S", "PEG">>,
                                y |-> WebValuationY, type |-> "bar",
                                colors |-> ChartColors]>>) @@
        ("valuation_layout" :> [title |-> Title(d, " Valuation Ratios"),
                                xaxis |-> "Ratio", yaxis |-> "Value"]) @@
        ("performance_data" :> <<[labels |-> <<"ROE", "ROI", "ROA", "Profit Margin">>,
                                  values |-> WebPerformanceValues, type |-> "pie",
                                  colors |-> ChartColors]>>) @@
        ("performance_layout" :>
            [title |-> Title(d, " Performance Metrics Distribution")]))

\* The series StreamlitStockDashboard.create_charts plots.
StPriceY == <<100, 105, 102, 110, 108, 115>>
StVolumeY == <<1000000, 1200000, 900000, 1500000, 1300000, 1100000>>
StValuationY == <<255, 82, 61, 18>>
StPerformanceValues == <<325, 283, 187, 224>>

\* go.Figure() with one trace added and its layout updated.
Figure(trace, layout) == [data |-> <<trace>>, layout |-> layout]

\* StreamlitStockDashboard.create_charts(): four plotly figures.
StCreateCharts(d) ==
    IF ~Truthy(d.quote_data) THEN Dict(EmptyItems)
    ELSE Dict(
        ("price_chart" :> Figure(
            [x |-> Months, y |-> StPriceY, mode |-> "lines+markers",
             name |-> "Stock Price", type |-> "scatter"],
            [title |-> Title(d, " Price Performance (6 Months)"),
             xaxis |-> "Month", yaxis |-> "Price ($)"])) @@
        ("volume_chart" :> Figure(
            [x |-> Months, y |-> StVolumeY, name |-> "Volume", type |-> "bar"],
            [title |-> Title(d, " Trading Volume (6 Months)"),
             xaxis |-> "Month", yaxis |-> "Volume"])) @@
        ("valuation_chart" :> Figure(
            [x |-> <<"P/E", "P/B", "P/S", "PEG">>, y |-> StValuationY,
             type |-> "bar", colors |-> ChartColors],
            [title |-> Title(d, " Valuation Ratios"),
             xaxis |-> "Ratio", yaxis |-> "Value"])) @@
        ("performance_chart" :> Figure(
            [labels |-> <<"ROE", "ROI", "ROA", "Profit Margin">>,
             values |-> StPerformanceValues, type |-> "pie", colors |-> ChartColors],
            [title |-> Title(d, " Performance Metrics Distribution")])))

\* ------------------------------------------------------------------ state

FrontEnds == {"streamlit", "flask", "terminal"}
Requests == {"w1", "w2"}
Threads == Requests \cup {"st", "term"}

\* The front-end whose dashboard object a thread works on.
FrontEndOf(t) ==
    CASE t \in Requests -> "flask"
      [] t = "st"       -> "streamlit"
      [] OTHER          -> "terminal"

\* __init__ of the three dashboard classes (company_name is the terminal script's).
NewDashboard ==
    [ticker |-> NoneV, quote_data |-> NoneV, stock |-> NoneV, company_name |-> NoneV]

\* A thread's frame: position, arguments and locals, return values, and the
\* history of the current request or run (log, ans, raw).
NewFrame ==
    [pc |-> "idle", route |-> "none", ticker |-> <<>>, stock |-> NoneV,
     ret |-> "unset", charts |-> NoneV, result |-> NoneV, response |-> NoneV,
     log |-> <<>>, ans |-> NoAnswers, raw |-> <<>>]

DashFields == {"ticker", "quote_data", "stock"}

\* The fields of the module-level dashboard a Flask request reads or writes
\* at each position.
WebAccess(pc) ==
    CASE pc = "fundament"       -> {"quote_data"}
      [] pc = "set_ticker"      -> {"ticker"}
      [] pc = "set_stock"       -> {"stock"}
      [] pc \in {"description", "signal", "ratings", "fallback"} -> {"quote_data"}
      [] pc = "fallback_ticker" -> {"ticker"}
      [] pc = "create_charts"   -> {"quote_data", "ticker"}
      [] pc = "result_ticker"   -> {"ticker"}
      [] pc = "result_data"     -> {"quote_data"}
      [] OTHER                  -> {}

Touch(r, pc) == [f \in DashFields |-> IF f \in WebAccess(pc) THEN acc[f] \cup {r} ELSE acc[f]]

\* The requests the Flask server handles at a time: one in the sequential
\* program, two under the threaded development server.
ActiveRequests ==
    CASE prog \in {"flask", "tests"} -> {"w1"}
      [] prog = "flask_threaded"     -> Requests
      [] OTHER                       -> {}

\* The test scripts give the three front-ends the same ticker; there the
\* provider answers an operation the same way whichever front-end asks.
SameProvider(t, op, a) ==
    prog = "tests" => \A u \in Threads \ {t} : th[u].ans[op] \in {Unasked, a}

\* The history a provider call leaves in the frame.
Record(l, op, a) == [l EXCEPT !.log = Append(@, op), !.ans[op] = a]

\* ------------------------------------------------------------------ the Flask app

\* A form route that takes the company name as typed, without strip().
ShowDashboardEntryNoStrip(name) ==
    IF name = <<>>
    THEN [NewFrame EXCEPT !.route = "form", !.raw = <<name>>, !.pc = "responded",
             !.response = [kind |-> "json",
                           body |-> Dict(("success" :> FALSE) @@
                                         ("error" :> "Company name is required"))]]
    ELSE [NewFrame EXCEPT !.route = "form", !.raw = <<name>>, !.pc = "construct",
             !.ticker = Upper(name)]

\* show_dashboard(), up to its call of get_dashboard_data: the form's
\* company_name is stripped; an empty one is answered at once, any other is
\* upper-cased and used as the ticker.
ShowDashboardEntry(name) ==
    LET company_name == Strip(name)
    IN  IF company_name = <<>>
        THEN [NewFrame EXCEPT !.route = "form", !.raw = <<name>>, !.pc = "responded",
                 !.response = [kind |-> "json",
                               body |-> Dict(("success" :> FALSE) @@
                                             ("error" :> "Company name is required"))]]
        ELSE [NewFrame EXCEPT !.route = "form", !.raw = <<name>>, !.pc = "construct",
                 !.ticker = Upper(company_name)]

\* api_dashboard(ticker), up to its call of get_dashboard_data.
ApiDashboardEntry(ticker) ==
    [NewFrame EXCEPT !.route = "api", !.raw = <<ticker>>, !.pc = "construct",
                     !.ticker = ticker]

\* WebStockDashboard.get_dashboard_data after fetch_company_data has returned,
\* and the route's answer.
WebGddStep(d, l) ==
    CASE l.pc = "returned" ->
           IF l.ret = "True" THEN Goto(l, "create_charts")
           ELSE [l EXCEPT !.pc = "route_return",
                          !.result = Dict(("success" :> FALSE) @@
                                          ("error" :> "Failed to fetch data"))]
      [] l.pc = "create_charts" ->
           [l EXCEPT !.charts = WebCreateCharts(d), !.pc = "result_ticker"]
      [] l.pc = "result_ticker" ->
           [l EXCEPT !.result = Dict(("success" :> TRUE) @@ ("ticker" :> d.ticker)),
                     !.pc = "result_data"]
      [] l.pc = "result_data" ->
           [l EXCEPT !.result = Dict(("data" :> d.quote_data) @@ ("charts" :> l.charts)
                                     @@ l.result.items),
                     !.pc = "route_return"]
      [] l.pc = "route_return" ->
           [l EXCEPT !.pc = "responded",
                     !.response =
                        IF l.route = "api" THEN [kind |-> "json", body |-> l.result]
                        ELSE IF l.result.items["success"]
                             THEN [kind |-> "dashboard.html", body |-> l.result]
                             ELSE [kind |-> "error.html", body |-> l.result]]
      [] OTHER -> l

GddPcs == {"returned", "create_charts", "result_ticker", "result_data", "route_return"}

\* The two tickers asked for at the same time under the threaded server.
ThreadedTickers == {<<"a">>, <<"a", "a">>}

\* What clients send: any non-empty path segment, any form field.  Under the
\* threaded server each of the two workers handles one request.
ApiTickers == IF prog = "flask_threaded" THEN ThreadedTickers ELSE RawStrings \ {<<>>}
FormNames == IF prog = "flask_threaded" THEN ThreadedTickers \cup {<<>>} ELSE RawStrings
CanStart(r) == th[r].pc = "idle" \/ (prog = "flask" /\ th[r].pc = "responded")

\* A request to /api/dashboard/<ticker> arrives.
FlaskApiRequest(r, t) ==
    /\ r \in ActiveRequests
    /\ CanStart(r)
    /\ t \in ApiTickers
    /\ th' = [th EXCEPT ![r] = ApiDashboardEntry(t)]
    /\ UNCHANGED <<dash, ss, acc, prog, lookup>>

\* A request to /dashboard arrives with a form.
FlaskFormRequest(r, name) ==
    /\ r \in ActiveRequests
    /\ CanStart(r)
    /\ name \in FormNames
    /\ th' = [th EXCEPT ![r] = ShowDashboardEntry(name)]
    /\ UNCHANGED <<dash, ss, acc, prog, lookup>>

\* A request executes the next statement of fetch_company_data.
FlaskFetch(r) ==
    /\ r \in ActiveRequests
    /\ th[r].pc \in FetchPcs
    /\ \E a \in ProviderAnswers(th[r].pc, th[r].ticker) :
         /\ th[r].pc \in ProviderOps => SameProvider(r, th[r].pc, a)
         /\ LET l == IF th[r].pc \in ProviderOps THEN Record(th[r], th[r].pc, a) ELSE th[r]
                o == WebFetchStep(dash["flask"], l, a)
            IN  /\ dash' = [dash EXCEPT !["flask"] = o.d]
                /\ th' = [th EXCEPT ![r] = o.l]
    /\ acc' = Touch(r, th[r].pc)
    /\ UNCHANGED <<ss, prog, lookup>>

\* A request executes the next statement of get_dashboard_data or of its route.
FlaskGetDashboardData(r) ==
    /\ r \in ActiveRequests
    /\ th[r].pc \in GddPcs
    /\ th' = [th EXCEPT ![r] = WebGddStep(dash["flask"], th[r])]
    /\ acc' = Touch(r, th[r].pc)
    /\ UNCHANGED <<dash, ss, prog, lookup>>

FlaskNext ==
    \/ \E r \in Requests, t \in RawStrings \ {<<>>} : FlaskApiRequest(r, t)
    \/ \E r \in Requests, name \in RawStrings : FlaskFormRequest(r, name)
    \/ \E r \in Requests : FlaskFetch(r)
    \/ \E r \in Requests : FlaskGetDashboardData(r)

\* ------------------------------------------------------------------ the ticker lookup

\* What st.secrets.get("OPENROUTER_API_KEY") gives: nothing, an empty string or a key.
ApiKeys == {NoneV, StrV(<<>>), StrV(<<"k">>)}

\* str(e) of what requests.post raises, and of what response.json() raises.
PostErrors == {"", "Connection refused"}
JsonErrors == {"Expecting value"}

\* The first choice of a completion: a message with a content (a string or
\* null), or an entry without a message.
Choices ==
    {("message" :> ("content" :> StrV(c))) : c \in RawStrings}
        \cup {("message" :> ("content" :> NoneV)), ("index" :> "0")}

\* What response.json() returns: an object without 'choices', with an empty
\* list of choices, or with one choice.
Bodies ==
    {("error" :> <<>>), ("choices" :> <<>>)} \cup {("choices" :> <<c>>) : c \in Choices}

\* What the chat-completions endpoint does with a request: requests.post
\* raises, or a response arrives whose json() raises or returns a body.
HttpRaise(m) == [tag |-> "raise", msg |-> m]
HttpResponse(status, json) == [tag |-> "response", status_code |-> status, json |-> json]
HttpOutcomes ==
    {HttpRaise(m) : m \in PostErrors}
        \cup {HttpResponse(st, j) : st \in {200, 429},
                j \in {HttpRaise(m) : m \in JsonErrors} \cup {Ret(b) : b \in Bodies}}

\* TickerLookup.__init__, before any call.
NewLookup(key) ==
    [api_key |-> key, calls |-> 0, sent |-> 0, name |-> <<>>, http |-> Unasked,
     result |-> NoneV]
Lookups ==
    CASE prog = "lookup"    -> {NewLookup(k) : k \in ApiKeys}
      [] prog = "streamlit" -> {NewLookup(k) : k \in ApiKeys \ {StrV(<<>>)}}
      [] OTHER              -> {NewLookup(NoneV)}

LookupFailure(m) == [success |-> FALSE, ticker |-> NoneV, error |-> StrV(m)]
LookupSuccess(t) == [success |-> TRUE, ticker |-> StrV(t), error |-> NoneV]

\* result["choices"][0]["message"]["content"].strip().upper(): a missing key
\* raises KeyError and a null content AttributeError, both inside the try.
FirstChoiceTicker(body) ==
    LET choice == body["choices"][1]
    IN  IF "message" \notin DOMAIN choice THEN HttpRaise("'message'")
        ELSE IF choice["message"]["content"].tag # "str"
             THEN HttpRaise("'NoneType' object has no attribute 'strip'")
        ELSE Ret(Upper(Strip(choice["message"]["content"].s)))

\* A lookup that takes the reply as it is: no status check, no blank check.
LookupTryUnchecked(http) ==
    IF http.tag = "raise" THEN LookupFailure(http.msg)
    ELSE IF http.json.tag = "raise" THEN LookupFailure(http.json.msg)
    ELSE LET result == http.json.val
         IN  IF "choices" \in DOMAIN result /\ result["choices"] # <<>>
             THEN LET ticker == FirstChoiceTicker(result)
                  IN  IF ticker.tag = "raise" THEN LookupFailure(ticker.msg)
                      ELSE LookupSuccess(ticker.val)
             ELSE LookupFailure("Could not find ticker symbol")

\* TickerLookup.find_ticker(company_name), the part inside the try, given what
\* the endpoint does with the request.
LookupTry(http) ==
    IF http.tag = "raise" THEN LookupFailure(http.msg)
    ELSE IF http.status_code = 200
         THEN IF http.json.tag = "raise" THEN LookupFailure(http.json.msg)
              ELSE LET result == http.json.val
                   IN  IF "choices" \in DOMAIN result /\ result["choices"] # <<>>
                       THEN LET ticker == FirstChoiceTicker(result)
                            IN  IF ticker.tag = "raise" THEN LookupFailure(ticker.msg)
                                ELSE IF ticker.val # <<>> THEN LookupSuccess(ticker.val)
                                ELSE LookupFailure("Could not find ticker symbol")
                       ELSE LookupFailure("Could not find ticker symbol")
         ELSE LookupFailure("Could not find ticker symbol")

\* A lookup that checks the company name before the key.
LookupFindTickerNameFirst(lk, company_name, http) ==
    LET l == [lk EXCEPT !.calls = 1, !.sent = 0, !.name = company_name, !.http = Unasked]
    IN  IF company_name = <<>>
        THEN [l EXCEPT !.result = LookupFailure("Company name is required")]
        ELSE IF ~Truthy(lk.api_key)
             THEN [l EXCEPT !.result = LookupFailure("API key not configured.")]
        ELSE [l EXCEPT !.sent = 1, !.http = http, !.result = LookupTry(http)]

\* TickerLookup.find_ticker(company_name): the lookup object after the call,
\* with the call's result and whether a request went out.
LookupFindTicker(lk, company_name, http) ==
    LET l == [lk EXCEPT !.calls = 1, !.sent = 0, !.name = company_name, !.http = Unasked]
    IN  IF ~Truthy(lk.api_key)
        THEN [l EXCEPT !.result = LookupFailure("API key not configured.")]
        ELSE IF company_name = <<>>
             THEN [l EXCEPT !.result = LookupFailure("Company name is required")]
        ELSE [l EXCEPT !.sent = 1, !.http = http, !.result = LookupTry(http)]

\* find_ticker is called on its own with a company name.
LookupCall(company_name, http) ==
    /\ prog = "lookup"
    /\ lookup' = LookupFindTicker(lookup, company_name, http)
    /\ UNCHANGED <<dash, th, ss, acc, prog>>

LookupNext == \E company_name \in RawStrings, http \in HttpOutcomes : LookupCall(company_name, http)

\* ------------------------------------------------------------------ the Streamlit app

\* The longest ticker validate_ticker accepts.
MaxTickerLen == 10

\* The characters str.isalnum() accepts.
AlnumChars ==
    {"a", "b", "A", "B", "C", "D", "E", "F", "G", "H", "I", "J", "K", "L", "M", "N", "O",
     "P", "Q", "R", "S", "T", "U", "V", "W", "X", "Y", "Z",
     "0", "1", "2", "3", "4", "5", "6", "7", "8", "9"}

\* str.isalnum(): non-empty and every character a letter or a digit.
IsAlnum(s) == s # <<>> /\ \A i \in 1..Len(s) : s[i] \in AlnumChars

\* ticker.replace('.', '')
RemoveDots(s) == SelectSeq(s, LAMBDA c : c # ".")

\* A validation that checks the length before the characters.
ValidateTickerLengthFirst(t) ==
    IF t = <<>> THEN [ok |-> FALSE, msg |-> "Ticker cannot be empty"]
    ELSE IF Len(t) > MaxTickerLen THEN [ok |-> FALSE, msg |-> "Ticker too long"]
    ELSE IF ~IsAlnum(RemoveDots(t))
         THEN [ok |-> FALSE, msg |-> "Ticker contains invalid characters"]
    ELSE [ok |-> TRUE, msg |-> "Valid ticker format"]

\* StreamlitStockDashboard.validate_ticker(ticker)
ValidateTicker(t) ==
    IF t = <<>> THEN [ok |-> FALSE, msg |-> "Ticker cannot be empty"]
    ELSE IF ~IsAlnum(RemoveDots(t))
         THEN [ok |-> FALSE, msg |-> "Ticker contains invalid characters"]
    ELSE IF Len(t) > MaxTickerLen THEN [ok |-> FALSE, msg |-> "Ticker too long"]
    ELSE [ok |-> TRUE, msg |-> "Valid ticker format"]

\* A run that fetches whatever non-empty ticker Analyze is clicked with.
StRunEntryNoValidate(s, typed, analyze) ==
    LET ticker_input == Upper(typed)
        s1 == IF ticker_input # s.ticker_input
              THEN [ticker_input |-> ticker_input, show_data |-> FALSE]
              ELSE s
        l == [NewFrame EXCEPT !.raw = <<typed>>,
                              !.route = IF analyze THEN "analyze" ELSE "rerun"]
    IN  IF analyze /\ s1.ticker_input # <<>>
        THEN [ss |-> s1, l |-> [l EXCEPT !.pc = "construct", !.ticker = s1.ticker_input]]
        ELSE [ss |-> s1, l |-> Goto(l, "render")]

\* The tickers validate_ticker is called with on its own: up to two
\* characters among a letter, a digit, a dot and a dash, followed by up to
\* MaxTickerLen + 1 letters or dots.
ValidateChars == {"A", "1", ".", "-"}
ValidateHeads ==
    {<<>>} \cup {<<c>> : c \in ValidateChars} \cup {<<c, e>> : c, e \in ValidateChars}
ValidateInputs ==
    {h \o [i \in 1..n |-> c] : h \in ValidateHeads, c \in {"A", "."},
                                n \in 0..(MaxTickerLen + 1)}

\* validate_ticker is called on its own with a ticker.
ValidateCall(t) ==
    /\ prog = "validate"
    /\ th' = [th EXCEPT !["st"] = [NewFrame EXCEPT !.route = "validate", !.raw = <<t>>,
                                                    !.pc = "validated",
                                                    !.result = ValidateTicker(t)]]
    /\ UNCHANGED <<dash, ss, acc, prog, lookup>>

ValidateNext == \E t \in ValidateInputs : ValidateCall(t)

\* main(), from the ticker text input to the Analyze button: the input is
\* upper-cased, a changed input resets show_data, and Analyze with a non-empty
\* ticker validates it before fetching.
StRunEntry(s, typed, analyze) ==
    LET ticker_input == Upper(typed)
        s1 == IF ticker_input # s.ticker_input
              THEN [ticker_input |-> ticker_input, show_data |-> FALSE]
              ELSE s
        l == [NewFrame EXCEPT !.raw = <<typed>>,
                              !.route = IF analyze THEN "analyze" ELSE "rerun"]
    IN  IF analyze /\ s1.ticker_input # <<>>
        THEN IF ValidateTicker(s1.ticker_input).ok
             THEN [ss |-> s1, l |-> [l EXCEPT !.pc = "construct",
                                              !.ticker = s1.ticker_input]]
             ELSE [ss |-> s1, l |-> [l EXCEPT !.pc = "render",
                                              !.log = <<"error:invalid_ticker">>]]
        ELSE [ss |-> s1, l |-> Goto(l, "render")]

\* main() after fetch_company_data has returned: show_data is set, and the
\* tabs are drawn when show_data holds (the charts when there is a record).
\* The run's locals and history end with the run; the page keeps the charts.
StMainStep(d, s, l) ==
    CASE l.pc = "returned" ->
           [ss |-> IF l.ret = "True" THEN [s EXCEPT !.show_data = TRUE] ELSE s,
            l |-> Goto(l, "render")]
      [] l.pc = "render" ->
           [ss |-> s,
            l |-> [NewFrame EXCEPT !.pc = "run_done",
                                   !.charts = IF s.show_data /\ Truthy(d.quote_data)
                                              THEN StCreateCharts(d) ELSE NoneV]]
      [] OTHER -> [ss |-> s, l |-> l]

\* The tickers test_api_connection asks the provider about.
ApiTestTickers ==
    {<<"A", "A", "P", "L">>, <<"M", "S", "F", "T">>, <<"G", "O", "O", "G", "L">>,
     <<"T", "S", "L", "A">>, <<"A", "M", "Z", "N">>}

\* StreamlitStockDashboard.test_api_connection(): a handle and the
\* fundamentals are asked for each test ticker, and each gives a 'success' or
\* an 'error' entry; the dashboard object is not touched.
TestApiConnection(d, answers) ==
    [d |-> d,
     results |-> [t \in ApiTestTickers |->
                    IF answers[t].tag = "raise" \/ answers[t].val.tag # "dict"
                    THEN [status |-> "error"]
                    ELSE [status |-> "success",
                          company |-> IF "Company" \in DOMAIN answers[t].val.items
                                      THEN answers[t].val.items["Company"]
                                      ELSE <<"N", "/", "A">>]]]

\* How the provider answers the test tickers: the same way for each of them.
ApiTestAnswers ==
    {[t \in ApiTestTickers |-> a] : a \in {Raise, Ret(NoneV), Ret(Dict(EmptyItems))}}
        \cup {[t \in ApiTestTickers |-> Ret(Dict(ProviderRecord(t)))]}

\* The tickers of the 'Popular tickers to try' buttons.
PopularTickers ==
    {<<"A", "A", "P", "L">>, <<"M", "S", "F", "T">>, <<"T", "S", "L", "A">>,
     <<"G", "O", "O", "G", "L">>}

\* The company names typed into the lookup box: none, a letter, a blank.
FindNames == {<<>>, <<"a">>, <<" ">>}

\* The buttons clicked in the sessions explored: the first and the last.
PopularClicks == {<<"A", "A", "P", "L">>, <<"G", "O", "O", "G", "L">>}

\* What the ticker text input returns in a run: what the user typed, or the
\* value it was given when the user left it alone.
TypedTickers == RawStrings \cup {ss.ticker_input}

\* The lookup's history of the last call is that of the current run.
ForgetCall(lk) == NewLookup(lk.api_key)

\* main(), the 'Find Ticker from Name' button: with a company name the lookup
\* is called, and a found ticker becomes ticker_input with show_data False.
StFindTicker(s, lk, company_name, http) ==
    IF company_name = <<>> THEN [ss |-> s, lookup |-> lk]
    ELSE LET l == LookupFindTicker(lk, company_name, http)
         IN  [ss |-> IF l.result.success
                     THEN [ticker_input |-> l.result.ticker.s, show_data |-> FALSE]
                     ELSE s,
              lookup |-> l]

\* A popular-ticker button that also asks for the data to be shown.
StPopularShow(s, t) ==
    LET s1 == [ticker_input |-> t, show_data |-> TRUE]
        o == StRunEntry(s1, s1.ticker_input, FALSE)
    IN  [ss |-> o.ss, l |-> [o.l EXCEPT !.route = "popular"]]

\* main(), a 'popular ticker' button, drawn when the ticker input is empty:
\* the ticker becomes ticker_input and the script is rerun (st.rerun()), with
\* the text input now holding that ticker.
StPopular(s, t) ==
    LET s1 == [s EXCEPT !.ticker_input = t]
        o == StRunEntry(s1, s1.ticker_input, FALSE)
    IN  [ss |-> o.ss, l |-> [o.l EXCEPT !.route = "popular"]]

\* The script runs: the user has typed into the ticker input and may have
\* clicked Analyze.
StScriptRun(typed, analyze) ==
    /\ prog = "streamlit"
    /\ th["st"].pc \in {"idle", "run_done"}
    /\ typed \in TypedTickers
    /\ LET o == StRunEntry(ss, typed, analyze)
       IN  /\ ss' = o.ss
           /\ th' = [th EXCEPT !["st"] = o.l]
    /\ lookup' = ForgetCall(lookup)
    /\ UNCHANGED <<dash, acc, prog>>

\* The script runs with the 'Find Ticker from Name' button clicked; the ticker
\* input returns the value it holds.
StFindTickerRun(company_name, http) ==
    /\ prog = "streamlit"
    /\ company_name \in FindNames
    /\ th["st"].pc \in {"idle", "run_done"}
    /\ LET f == StFindTicker(ss, ForgetCall(lookup), company_name, http)
           o == StRunEntry(f.ss, f.ss.ticker_input, FALSE)
       IN  /\ ss' = o.ss
           /\ lookup' = ForgetCall(f.lookup)
           /\ th' = [th EXCEPT !["st"] =
                        [o.l EXCEPT !.route = "find",
                                    !.log = IF f.lookup.calls = 0 THEN <<>>
                                            ELSE IF f.lookup.result.success
                                                 THEN <<"find_ticker:found">>
                                            ELSE <<"find_ticker:error">>]]
    /\ UNCHANGED <<dash, acc, prog>>

\* The script runs with the 'Test API Connection' button clicked.
StTestApiRun(answers) ==
    /\ prog = "streamlit"
    /\ th["st"].pc \in {"idle", "run_done"}
    /\ LET o == StRunEntry(ss, ss.ticker_input, FALSE)
           t == TestApiConnection(dash["streamlit"], answers)
       IN  /\ ss' = o.ss
           /\ dash' = [dash EXCEPT !["streamlit"] = t.d]
           /\ th' = [th EXCEPT !["st"] = [o.l EXCEPT !.route = "test_api",
                                                    !.log = <<"test_api_connection">>]]
    /\ lookup' = ForgetCall(lookup)
    /\ UNCHANGED <<acc, prog>>

\* The script runs with a 'popular ticker' button clicked; the buttons were
\* drawn by the last run, whose ticker input was empty.
StPopularRun(t) ==
    /\ prog = "streamlit"
    /\ t \in PopularTickers
    /\ th["st"].pc = "run_done"
    /\ ss.ticker_input = <<>>
    /\ LET o == StPopular(ss, t)
       IN  /\ ss' = o.ss
           /\ th' = [th EXCEPT !["st"] = o.l]
    /\ lookup' = ForgetCall(lookup)
    /\ UNCHANGED <<dash, acc, prog>>

\* The script executes the next statement of fetch_company_data.
StFetch ==
    /\ prog \in {"streamlit", "tests"}
    /\ th["st"].pc \in FetchPcs
    /\ \E a \in ProviderAnswers(th["st"].pc, th["st"].ticker) :
         /\ th["st"].pc \in ProviderOps => SameProvider("st", th["st"].pc, a)
         /\ LET l == IF th["st"].pc \in ProviderOps
                     THEN Record(th["st"], th["st"].pc, a) ELSE th["st"]
                o == StFetchStep(dash["streamlit"], l, a)
            IN  /\ dash' = [dash EXCEPT !["streamlit"] = o.d]
                /\ th' = [th EXCEPT !["st"] = o.l]
    /\ UNCHANGED <<ss, acc, prog, lookup>>

\* The script executes the rest of main().
StMain ==
    /\ prog = "streamlit"
    /\ th["st"].pc \in {"returned", "render"}
    /\ LET o == StMainStep(dash["streamlit"], ss, th["st"])
       IN  /\ ss' = o.ss
           /\ th' = [th EXCEPT !["st"] = o.l]
    /\ UNCHANGED <<dash, acc, prog, lookup>>

StreamlitNext ==
    \/ \E typed \in TypedTickers, analyze \in BOOLEAN : StScriptRun(typed, analyze)
    \/ \E company_name \in FindNames, http \in HttpOutcomes :
          StFindTickerRun(company_name, http)
    \/ \E answers \in ApiTestAnswers : StTestApiRun(answers)
    \/ \E t \in PopularClicks : StPopularRun(t)
    \/ StFetch
    \/ StMain

\* ------------------------------------------------------------------ the terminal script

Log(l, e) == [l EXCEPT !.log = Append(@, e)]

\* get_company_input(): the name is read and stripped; an empty name ends the
\* input with False, any other goes on to find_ticker.  input() raising
\* (end of input) is not caught here.
GetCompanyInput(d, l, in) ==
    LET l1 == [Log(l, "prompt_name") EXCEPT !.raw = Append(@, in)]
    IN  IF in.tag = "raise" THEN Out(d, Goto(l1, "crashed"))
        ELSE LET name == Strip(in.val)
                 d1 == [d EXCEPT !.company_name = StrV(name)]
             IN  IF name = <<>>
                 THEN Out(d1, Goto(Log(Log(l1, "print:name_empty"),
                                       "print:input_failed"), "done"))
                 ELSE Out(d1, Goto(l1, "find_ticker"))

\* A find_ticker that does not reject an empty ticker.
FindTickerNoCheck(d, l, in) ==
    LET l1 == [Log(l, "prompt_ticker") EXCEPT !.raw = Append(@, in)]
    IN  IF in.tag = "raise"
        THEN Out(d, Goto(Log(l1, "print:input_failed"), "done"))
        ELSE Out([d EXCEPT !.ticker = StrV(Upper(Strip(in.val)))], Goto(l1, "construct"))

\* find_ticker(): the ticker is read, stripped and upper-cased into self.ticker;
\* an empty ticker, or input() raising, returns False.
FindTicker(d, l, in) ==
    LET l1 == [Log(l, "prompt_ticker") EXCEPT !.raw = Append(@, in)]
    IN  IF in.tag = "raise"
        THEN Out(d, Goto(Log(l1, "print:input_failed"), "done"))
        ELSE LET ticker == Upper(Strip(in.val))
                 d1 == [d EXCEPT !.ticker = StrV(ticker)]
             IN  IF ticker = <<>>
                 THEN Out(d1, Goto(Log(Log(l1, "print:ticker_empty"),
                                       "print:input_failed"), "done"))
                 ELSE Out(d1, Goto(l1, "construct"))

\* run() after fetch_company_data has returned, and display_dashboard(), which
\* asks the provider for the charts when a handle is stored.
TermRunStep(d, l, a) ==
    CASE l.pc = "returned" ->
           IF l.ret = "True" THEN Goto(l, "display")
           ELSE Goto(Log(l, "print:fetch_failed"), "done")
      [] l.pc = "display" ->
           IF ~Truthy(d.quote_data) THEN Goto(Log(l, "print:no_data"), "done")
           ELSE IF Truthy(d.stock)
                THEN Goto(Log(Log(l, "display"), "ticker_charts"), "done")
                ELSE Goto(Log(l, "display"), "done")
      [] OTHER -> l

\* What input() gives: a line, or end of input.
Inputs == {Ret(s) : s \in RawStrings} \cup {Raise}

TermGetCompanyInput(in) ==
    /\ prog = "terminal"
    /\ th["term"].pc = "idle"
    /\ LET o == GetCompanyInput(dash["terminal"], th["term"], in)
       IN  /\ dash' = [dash EXCEPT !["terminal"] = o.d]
           /\ th' = [th EXCEPT !["term"] = o.l]
    /\ UNCHANGED <<ss, acc, prog, lookup>>

TermFindTicker(in) ==
    /\ prog = "terminal"
    /\ th["term"].pc = "find_ticker"
    /\ LET o == FindTicker(dash["terminal"], th["term"], in)
       IN  /\ dash' = [dash EXCEPT !["terminal"] = o.d]
           /\ th' = [th EXCEPT !["term"] = o.l]
    /\ UNCHANGED <<ss, acc, prog, lookup>>

\* The script executes the next statement of fetch_company_data.
TermFetch ==
    /\ prog \in {"terminal", "tests"}
    /\ th["term"].pc \in FetchPcs
    /\ \E a \in ProviderAnswers(th["term"].pc, Format(dash["terminal"].ticker)) :
         /\ th["term"].pc \in ProviderOps => SameProvider("term", th["term"].pc, a)
         /\ LET l == IF th["term"].pc \in ProviderOps
                     THEN Record(th["term"], th["term"].pc, a) ELSE th["term"]
                o == TermFetchStep(dash["terminal"], l, a)
            IN  /\ dash' = [dash EXCEPT !["terminal"] = o.d]
                /\ th' = [th EXCEPT !["term"] = o.l]
    /\ UNCHANGED <<ss, acc, prog, lookup>>

\* The script executes the rest of run().
TermRun ==
    /\ prog = "terminal"
    /\ th["term"].pc \in {"returned", "display"}
    /\ \E a \in {Raise, Ret("charts")} :
         th' = [th EXCEPT !["term"] = TermRunStep(dash["terminal"], th["term"], a)]
    /\ UNCHANGED <<dash, ss, acc, prog, lookup>>

TerminalNext ==
    \/ \E in \in Inputs : TermGetCompanyInput(in)
    \/ \E in \in Inputs : TermFindTicker(in)
    \/ TermFetch
    \/ TermRun

\* ------------------------------------------------------------------ specifications

NewSession == [ticker_input |-> <<>>, show_data |-> FALSE]

InitOf(programs) ==
    /\ prog \in programs
    /\ dash = [fe \in FrontEnds |-> NewDashboard]
    /\ th = [t \in Threads |-> NewFrame]
    /\ ss = NewSession
    /\ acc = [f \in DashFields |-> {}]
    /\ lookup \in Lookups

\* Each program on its own, one request or script run at a time.
Init == InitOf(FrontEnds)
Next == StreamlitNext \/ FlaskNext \/ TerminalNext
Spec == Init /\ [][Next]_vars

\* The Flask server under the threaded development server.
InitThreaded == InitOf({"flask_threaded"})
SpecThreaded == InitThreaded /\ [][FlaskNext]_vars

\* The tickers and company names the test scripts call the front-ends with:
\* what a user's input is once stripped and upper-cased.
TestTickers == {Upper(Strip(x)) : x \in RawStrings} \ {<<>>}
TestNames == {Strip(x) : x \in RawStrings} \ {<<>>}

\* The test scripts: each dashboard is constructed and fetch_company_data is
\* called with the same ticker (the terminal script's company_name and ticker
\* are set directly), against the same provider.
InitTests ==
    /\ prog = "tests"
    /\ \E t \in TestTickers, name \in TestNames :
         /\ dash = [fe \in FrontEnds |->
                      IF fe = "terminal"
                      THEN [NewDashboard EXCEPT !.company_name = StrV(name),
                                                !.ticker = StrV(t)]
                      ELSE NewDashboard]
         /\ th = [u \in Threads |->
                    IF u = "w2" THEN NewFrame
                    ELSE [NewFrame EXCEPT !.pc = "construct", !.ticker = t,
                                          !.route = "test"]]
    /\ ss = NewSession
    /\ acc = [f \in DashFields |-> {}]
    /\ lookup \in Lookups

TestsNext ==
    \/ \E r \in Requests : FlaskFetch(r)
    \/ StFetch
    \/ TermFetch

SpecTests == InitTests /\ [][TestsNext]_vars

\* validate_ticker called on its own.
InitValidate == InitOf({"validate"})
SpecValidate == InitValidate /\ [][ValidateNext]_vars

\* TickerLookup.find_ticker called on its own.
InitLookup == InitOf({"lookup"})
SpecLookup == InitLookup /\ [][LookupNext]_vars

\* ------------------------------------------------------------------ properties

\* fetch_company_data has just returned in thread t.
Returned(t) == th[t].pc = "returned"

\* The record and the ticker of the dashboard thread t works on, and the
\* ticker its fetch was called with.
QuoteData(t) == dash[FrontEndOf(t)].quote_data
ArgTicker(t) == IF t = "term" THEN Format(dash["terminal"].ticker) ELSE th[t].ticker

\* The provider raised in quote construction or in ticker_fundament.
RaisedEarly(t) ==
    th[t].ans["construct"] = Raise \/ th[t].ans["fundament"] = Raise

\* The keys of the fallback literal of the Streamlit and Flask apps, and of
\* the terminal script.
SharedFallbackKeys ==
    {"Company", "Sector", "Industry", "Country", "Market Cap", "Enterprise Value",
     "Price", "52W High", "52W Low", "Volume", "P/E", "P/B", "P/S", "PEG", "ROE",
     "ROA", "Profit Margin", "Dividend", "Dividend %", "Payout Ratio",
     "Recommendation", "Target Price", "Beta", "Description", "Signal", "Ratings"}
AppFallbackKeys == SharedFallbackKeys \cup {"ROI", "Volatility"}
TermFallbackKeys == SharedFallbackKeys \cup {"ROIC", "Volatility W", "Volatility M"}

\* q is the Streamlit/Flask fallback literal for ticker t.
IsAppFallback(q, t) ==
    /\ q.tag = "dict"
    /\ DOMAIN q.items = AppFallbackKeys
    /\ q.items["Company"] = SampleCompany(t)
    /\ q.items["Description"] = "Sample company description"
    /\ q.items["Signal"] = "Buy"
    /\ q.items["Ratings"] = "Positive"
    /\ q.items["ROI"] = "28.3%"
    /\ q.items["Price"] = "$150.25"

\* q is the terminal script's fallback literal for company name n and ticker t.
IsTermFallback(q, n, t) ==
    /\ q.tag = "dict"
    /\ DOMAIN q.items = TermFallbackKeys
    /\ q.items["Company"] = n \o <<" ", "(">> \o t \o <<")">>
    /\ q.items["Description"] = "Sample company description"
    /\ q.items["Signal"] = "Buy"
    /\ q.items["Ratings"] = "Positive"
    /\ q.items["ROIC"] = "28.3%"
    /\ q.items["Price"] = "$150.25"

\* C1 as stated: in every front-end, when the provider raises in quote
\* construction or in ticker_fundament for ticker t, fetch_company_data returns
\* True, the dashboard's ticker is t and quote_data is the fallback record
\* whose 'Company' is 'Sample Company (t)'.
C1_Original ==
    \A t \in Threads :
        (Returned(t) /\ RaisedEarly(t)) =>
            /\ th[t].ret = "True"
            /\ dash[FrontEndOf(t)].ticker = StrV(ArgTicker(t))
            /\ QuoteData(t).tag = "dict"
            /\ "Company" \in DOMAIN QuoteData(t).items
            /\ QuoteData(t).items["Company"] = SampleCompany(ArgTicker(t))

\* C1 amended: when the provider raises in quote construction or in
\* ticker_fundament for ticker t, fetch_company_data returns True and the
\* dashboard's ticker is t; in the Streamlit and Flask apps quote_data is the
\* fallback record whose 'Company' is 'Sample Company (t)', in the terminal
\* script it is that script's fallback record, whose 'Company' is
\* '<company_name> (t)'.
C1_FallbackOnEarlyRaise ==
    \A t \in Threads :
        (Returned(t) /\ RaisedEarly(t)) =>
            /\ th[t].ret = "True"
            /\ dash[FrontEndOf(t)].ticker = StrV(ArgTicker(t))
            /\ IF t = "term"
               THEN IsTermFallback(QuoteData(t), Format(dash["terminal"].company_name),
                                   ArgTicker(t))
               ELSE IsAppFallback(QuoteData(t), ArgTicker(t))

\* C1 witness: a Flask request whose fetch returned after ticker_fundament raised.
C1_Witness ==
    /\ Returned("w1")
    /\ th["w1"].ans["fundament"] = Raise
    /\ th["w1"].ticker = <<"a", "a">>

\* The fundamentals answer of thread t's fetch.
Fundament(t) == th[t].ans["fundament"]

OptionalKeys == {"Description", "Signal", "Ratings"}

\* q is the provider's record f with only the three optional keys set on top.
ExtendsRecord(q, f) ==
    /\ q.tag = "dict"
    /\ DOMAIN q.items = DOMAIN f.items \cup OptionalKeys
    /\ \A k \in DOMAIN f.items \ OptionalKeys : q.items[k] = f.items[k]

\* The 'Company' field is not the fallback template (a missing field reads 'N/A').
NotTemplate(q, t) ==
    "Company" \in DOMAIN q.items => q.items["Company"] # SampleCompany(t)

\* C2 as stated: when quote construction and ticker_fundament answer without
\* raising, the Flask and Streamlit fetch_company_data return True and quote_data is the provider's
\* fundamentals record extended only with 'Description', 'Signal' and
\* 'Ratings', so that 'Company' is the provider's value and not the template.
C2_Original ==
    \A t \in Requests \cup {"st"} :
        (Returned(t) /\ Fundament(t).tag = "ret") =>
            /\ th[t].ret = "True"
            /\ Fundament(t).val.tag = "dict"
            /\ ExtendsRecord(QuoteData(t), Fundament(t).val)
            /\ NotTemplate(QuoteData(t), ArgTicker(t))

\* C2 amended: when quote construction answers without raising and
\* ticker_fundament returns a mapping, fetch_company_data returns True and
\* quote_data is that mapping extended only with 'Description', 'Signal' and
\* 'Ratings', so that 'Company' is the provider's value and not the template;
\* when ticker_fundament returns None the fetch falls back.
C2_LiveRecordKept ==
    \A t \in Threads :
        (Returned(t) /\ Fundament(t).tag = "ret") =>
            /\ th[t].ret = "True"
            /\ IF Fundament(t).val.tag = "dict"
               THEN /\ ExtendsRecord(QuoteData(t), Fundament(t).val)
                    /\ NotTemplate(QuoteData(t), ArgTicker(t))
               ELSE IF t = "term"
                    THEN IsTermFallback(QuoteData(t),
                                        Format(dash["terminal"].company_name),
                                        ArgTicker(t))
                    ELSE IsAppFallback(QuoteData(t), ArgTicker(t))

\* C2 witness: a Streamlit fetch returned with the provider's record for its
\* ticker, 'Company' included.
C2_Witness ==
    /\ Returned("st")
    /\ Fundament("st") = Ret(Dict(ProviderRecord(<<"A">>)))
    /\ QuoteData("st").items["Company"] = ProviderCompany(<<"A">>)

\* The four series of a Flask chart mapping and of a Streamlit one.
WebSeries(c) ==
    [price_x |-> c.items["price_data"][1].x, price |-> c.items["price_data"][1].y,
     volume_x |-> c.items["volume_data"][1].x, volume |-> c.items["volume_data"][1].y,
     valuation_x |-> c.items["valuation_data"][1].x,
     valuation |-> c.items["valuation_data"][1].y,
     performance_x |-> c.items["performance_data"][1].labels,
     performance |-> c.items["performance_data"][1].values]

StSeries(c) ==
    [price_x |-> c.items["price_chart"].data[1].x,
     price |-> c.items["price_chart"].data[1].y,
     volume_x |-> c.items["volume_chart"].data[1].x,
     volume |-> c.items["volume_chart"].data[1].y,
     valuation_x |-> c.items["valuation_chart"].data[1].x,
     valuation |-> c.items["valuation_chart"].data[1].y,
     performance_x |-> c.items["performance_chart"].data[1].labels,
     performance |-> c.items["performance_chart"].data[1].values]

\* The series the claim names (tenths for the two float series).
ClaimedSeries ==
    [price_x |-> <<"Jan", "Feb", "Mar", "Apr", "May", "Jun">>,
     price |-> <<100, 105, 102, 110, 108, 115>>,
     volume_x |-> <<"Jan", "Feb", "Mar", "Apr", "May", "Jun">>,
     volume |-> <<1000000, 1200000, 900000, 1500000, 1300000, 1100000>>,
     valuation_x |-> <<"P/E", "P/B", "P/S", "PEG">>,
     valuation |-> <<255, 82, 61, 18>>,
     performance_x |-> <<"ROE", "ROI", "ROA", "Profit Margin">>,
     performance |-> <<325, 283, 187, 224>>]

\* A chart mapping with its titles blanked.
WebLayouts == {"price_layout", "volume_layout", "valuation_layout", "performance_layout"}
WebUntitled(c) ==
    [k \in DOMAIN c.items |->
        IF k \in WebLayouts THEN [c.items[k] EXCEPT !.title = <<>>] ELSE c.items[k]]
StUntitled(c) ==
    [k \in DOMAIN c.items |-> [c.items[k] EXCEPT !.layout.title = <<>>]]

\* Some dashboard holding a record, to compare any other with.
OtherDashboard ==
    [NewDashboard EXCEPT !.ticker = StrV(<<"Z">>),
                         !.quote_data = Dict("P/E" :> "99.9")]

\* The charts create_charts returned to thread t, when it returned any.
HasCharts(t) == th[t].charts.tag = "dict" /\ DOMAIN th[t].charts.items # {}

\* C3: for any dashboards holding non-empty records, whatever the ticker and
\* the record, create_charts returns the same four series: price
\* [100,105,102,110,108,115] and volume [1000000,...,1100000] over Jan..Jun,
\* valuation [25.5,8.2,6.1,1.8] over P/E,P/B,P/S,PEG and performance
\* [32.5,28.3,18.7,22.4] over ROE,ROI,ROA,Profit Margin; apart from the titles,
\* which start with the ticker, the charts are those of any other dashboard.
C3_FixedSeries ==
    /\ \A r \in Requests :
          HasCharts(r) =>
             /\ WebSeries(th[r].charts) = ClaimedSeries
             /\ WebUntitled(th[r].charts) = WebUntitled(WebCreateCharts(OtherDashboard))
    /\ HasCharts("st") =>
          /\ StSeries(th["st"].charts) = ClaimedSeries
          /\ StUntitled(th["st"].charts) = StUntitled(StCreateCharts(OtherDashboard))
    /\ Truthy(dash["flask"].quote_data) =>
          /\ WebSeries(WebCreateCharts(dash["flask"])) = ClaimedSeries
          /\ WebCreateCharts(dash["flask"]).items["price_layout"].title =
                Format(dash["flask"].ticker) \o <<" Price Performance (6 Months)">>
    /\ Truthy(dash["streamlit"].quote_data) =>
          /\ StSeries(StCreateCharts(dash["streamlit"])) = ClaimedSeries
          /\ StCreateCharts(dash["streamlit"]).items["price_chart"].layout.title =
                Format(dash["streamlit"].ticker) \o <<" Price Performance (6 Months)">>

\* C3 witness: create_charts has returned charts for a live record of ticker
\* 'aa' in the Flask app.
C3_Witness ==
    /\ HasCharts("w1")
    /\ dash["flask"].ticker = StrV(<<"a", "a">>)
    /\ Fundament("w1") = Ret(Dict(ProviderRecord(<<"a", "a">>)))

\* The key an optional provider operation fills.
OptionalKey(op) ==
    CASE op = "description" -> "Description"
      [] op = "signal"      -> "Signal"
      [] OTHER              -> "Ratings"

OptionalOps == {"description", "signal", "ratings"}

\* C4 as stated: every failure of a provider call during fetch_company_data
\* (quote construction, fundamentals, description, signal or ratings) leaves
\* quote_data replaced wholesale by the fallback record.
C4_Original ==
    \A t \in Requests \cup {"st"} :
        (Returned(t) /\ \E op \in ProviderOps : th[t].ans[op] = Raise) =>
            IsAppFallback(QuoteData(t), ArgTicker(t))

\* C4 amended: a failure of quote construction or of ticker_fundament (or a
\* fundamentals answer that is no mapping) leaves quote_data replaced wholesale
\* by the fallback record; a failure of ticker_description, ticker_signal or
\* ticker_outer_ratings leaves the provider's record in place with 'N/A' under
\* that call's key, so a fetch can end with live fields next to substitutes.
C4_FallbackOrNA ==
    \A t \in Requests \cup {"st"} :
        Returned(t) =>
            IF RaisedEarly(t) \/ Fundament(t).val.tag # "dict"
            THEN IsAppFallback(QuoteData(t), ArgTicker(t))
            ELSE /\ ExtendsRecord(QuoteData(t), Fundament(t).val)
                 /\ \A op \in OptionalOps :
                       QuoteData(t).items[OptionalKey(op)] =
                          IF th[t].ans[op] = Raise THEN "N/A" ELSE th[t].ans[op].val

\* C4 witness: a Flask fetch returned with the provider's 'Company' next to
\* 'N/A' for the description that failed.
C4_Witness ==
    /\ Returned("w1")
    /\ th["w1"].ans["description"] = Raise
    /\ Fundament("w1") = Ret(Dict(ProviderRecord(th["w1"].ticker)))
    /\ QuoteData("w1").items["Description"] = "N/A"
    /\ QuoteData("w1").items["Company"] = ProviderCompany(th["w1"].ticker)

\* The positions a thread is at once its fetch_company_data has returned.
AfterFetchPcs == GddPcs \cup {"responded", "render", "run_done", "display", "done"}

Logged(t, e) == \E i \in DOMAIN th[t].log : th[t].log[i] = e

\* C5: fetch_company_data returns True on every path in the three front-ends,
\* so get_dashboard_data returns success = True with 'ticker', 'data' and
\* 'charts'; its 'Failed to fetch data' branch and the terminal script's
\* 'Failed to fetch company data' branch are never taken.
C5_FetchAlwaysTrue ==
    /\ \A t \in Threads :
          /\ th[t].ret # "False"
          /\ Returned(t) => th[t].ret = "True"
    /\ \A r \in Requests :
          /\ (th[r].pc \in {"route_return", "responded"} /\ th[r].result.tag = "dict") =>
                /\ DOMAIN th[r].result.items = {"success", "ticker", "data", "charts"}
                /\ th[r].result.items["success"] = TRUE
          /\ (th[r].pc = "responded" /\ th[r].ticker # <<>>) =>
                /\ th[r].response.kind # "error.html"
                /\ th[r].response.body.items["success"] = TRUE
    /\ ~Logged("term", "print:fetch_failed")

\* C5 witness: the API route answered success for a ticker whose quote
\* construction raised.
C5_Witness ==
    /\ th["w1"].pc = "responded"
    /\ th["w1"].route = "api"
    /\ th["w1"].ans["construct"] = Raise
    /\ th["w1"].response.body.items["success"] = TRUE

WebChartKeys ==
    {"price_data", "price_layout", "volume_data", "volume_layout", "valuation_data",
     "valuation_layout", "performance_data", "performance_layout"}

\* c is a chart mapping with exactly the eight keys, one trace per *_data.
WellFormedCharts(c) ==
    /\ c.tag = "dict"
    /\ DOMAIN c.items = WebChartKeys
    /\ \A k \in WebChartKeys \ WebLayouts : Len(c.items[k]) = 1

\* C6: after any completed WebStockDashboard.fetch_company_data, live or
\* fallback, create_charts returns a non-empty mapping with exactly the keys
\* price_data, price_layout, volume_data, volume_layout, valuation_data,
\* valuation_layout, performance_data, performance_layout, each *_data a list
\* of exactly one trace.
C6_ChartsWellFormed ==
    \A r \in Requests :
        /\ Returned(r) => WellFormedCharts(WebCreateCharts(dash["flask"]))
        /\ th[r].charts # NoneV => WellFormedCharts(th[r].charts)

\* C6 witness: create_charts has returned after a fetch to which the provider
\* gave an empty fundamentals record.
C6_Witness ==
    /\ th["w1"].pc = "result_ticker"
    /\ Fundament("w1") = Ret(Dict(EmptyItems))
    /\ th["w1"].charts # NoneV

\* The three front-ends' fetches have returned under the test scripts.
TestThreads == {"st", "w1", "term"}
AllReturned == \A t \in TestThreads : Returned(t)

\* C7 as stated: for the same ticker and the same provider behaviour the
\* Streamlit, Flask and terminal fetch_company_data leave the same quote_data,
\* the same fallback record included.
C7_Original ==
    AllReturned =>
        /\ dash["streamlit"].quote_data = dash["flask"].quote_data
        /\ dash["terminal"].quote_data = dash["flask"].quote_data

\* The fetch of thread t took its fallback path.
FellBack(t) == RaisedEarly(t) \/ Fundament(t).val.tag # "dict"

\* C7 amended: for the same ticker and the same provider behaviour the
\* Streamlit and Flask fetch_company_data leave the same quote_data; the
\* terminal script leaves that record too when the fetch does not fall back,
\* and on fallback a record that differs from it: 'Company' is
\* '<company_name> (ticker)', 'ROIC' stands for 'ROI', 'Volatility W' and
\* 'Volatility M' for 'Volatility', and the other fields are the same.
C7_SameRecordExceptTerminalFallback ==
    /\ (Returned("st") /\ Returned("w1")) =>
          dash["streamlit"].quote_data = dash["flask"].quote_data
    /\ AllReturned =>
          LET web == dash["flask"].quote_data
              term == dash["terminal"].quote_data
          IN  IF ~FellBack("w1") THEN term = web
              ELSE /\ FellBack("term")
                   /\ term # web
                   /\ DOMAIN term.items =
                         (DOMAIN web.items \ {"ROI", "Volatility"})
                            \cup {"ROIC", "Volatility W", "Volatility M"}
                   /\ term.items["Company"] =
                         Format(dash["terminal"].company_name) \o <<" ", "(">>
                            \o th["w1"].ticker \o <<")">>
                   /\ web.items["Company"] = SampleCompany(th["w1"].ticker)
                   /\ \A k \in (DOMAIN web.items \cap DOMAIN term.items) \ {"Company"} :
                         term.items[k] = web.items[k]

\* C7 witness: the three fetches returned for the same ticker after
\* ticker_fundament raised.
C7_Witness ==
    /\ AllReturned
    /\ \A t \in TestThreads : th[t].ans["fundament"] = Raise

\* C8 as stated: the Flask server keeps no mutable state shared between
\* requests: no variable is read or written by two requests.
C8_NoSharedState ==
    \A f \in DashFields : Cardinality(acc[f]) <= 1

\* The provider operations and the chart request in a thread's log.
ProviderEvents == ProviderOps \cup {"ticker_charts"}
Position(t, e) == CHOOSE i \in DOMAIN th[t].log : th[t].log[i] = e

\* C9: in the terminal script run() goes input, fetch, display:
\* fetch_company_data is called only after a non-empty company name and a
\* non-empty ticker have been read (the ticker stored stripped and
\* upper-cased), the ticker prompt is never issued after an empty company name,
\* display_dashboard is called only after fetch_company_data has returned, and
\* an empty name or ticker ends the run with no provider call.
C9_InputFetchDisplay ==
    LET l == th["term"]
        d == dash["terminal"]
        called == \E i \in DOMAIN l.log : l.log[i] \in ProviderEvents
    IN  prog = "terminal" =>
        /\ (called \/ l.pc \in FetchPcs) =>
              /\ Len(l.raw) = 2
              /\ l.log[1] = "prompt_name" /\ l.log[2] = "prompt_ticker"
              /\ l.raw[1].tag = "ret" /\ l.raw[2].tag = "ret"
              /\ Truthy(d.company_name) /\ Truthy(d.ticker)
              /\ d.company_name.s = Strip(l.raw[1].val)
              /\ d.ticker.s = Upper(Strip(l.raw[2].val))
              /\ Head(d.ticker.s) # " " /\ d.ticker.s[Len(d.ticker.s)] # " "
              /\ \A i \in DOMAIN d.ticker.s : d.ticker.s[i] # "a"
        /\ Logged("term", "prompt_ticker") =>
              /\ l.raw[1].tag = "ret"
              /\ Strip(l.raw[1].val) # <<>>
              /\ Position("term", "prompt_name") < Position("term", "prompt_ticker")
        /\ Logged("term", "display") =>
              /\ l.ret = "True"
              /\ l.pc = "done"
              /\ \A i \in DOMAIN l.log :
                    l.log[i] \in ProviderOps => i < Position("term", "display")
        /\ (l.pc = "done" /\ (~Truthy(d.company_name) \/ ~Truthy(d.ticker))) => ~called

\* C9 witness: a run that read a name and a ticker with blanks and lower case,
\* fetched and displayed.
C9_Witness ==
    /\ th["term"].pc = "done"
    /\ Logged("term", "display")
    /\ th["term"].raw = <<Ret(<<" ", "a">>), Ret(<<"a", " ">>)>>

\* How often an event is in thread t's log.
Count(t, e) == Cardinality({i \in DOMAIN th[t].log : th[t].log[i] = e})

\* C10: no provider call is retried: within one fetch_company_data each of the
\* five provider operations is invoked at most once, and after quote
\* construction or ticker_fundament fails no further provider operation is
\* invoked in that fetch.
C10_NoRetry ==
    \A t \in Threads :
        /\ \A op \in ProviderOps : Count(t, op) <= 1
        /\ th[t].ans["construct"] = Raise =>
              \A op \in ProviderOps \ {"construct"} : Count(t, op) = 0
        /\ th[t].ans["fundament"] = Raise =>
              \A op \in OptionalOps : Count(t, op) = 0

\* C10 witness: a Streamlit fetch returned after ticker_fundament raised, with
\* quote construction and ticker_fundament each called once.
C10_Witness ==
    /\ Returned("st")
    /\ th["st"].ans["fundament"] = Raise
    /\ th["st"].log = <<"construct", "fundament">>

\* A find_ticker call has returned.
LookupReturned == lookup.calls = 1

\* The first choice's content of the reply, when the reply has one.
ReplyContent ==
    LET h == lookup.http
    IN  IF h.tag = "response" /\ h.json.tag = "ret" /\ "choices" \in DOMAIN h.json.val
           /\ h.json.val["choices"] # <<>>
           /\ "message" \in DOMAIN h.json.val["choices"][1]
        THEN h.json.val["choices"][1]["message"]["content"]
        ELSE NoneV

\* success = True exactly when ticker is a non-empty, stripped, upper-case
\* string and error is None.
SuccessShape(r) ==
    r.success <=> /\ r.ticker.tag = "str"
                  /\ r.ticker.s # <<>>
                  /\ Strip(r.ticker.s) = r.ticker.s
                  /\ Upper(r.ticker.s) = r.ticker.s
                  /\ r.error = NoneV

\* success = True only with a key, a name, status 200 and a non-blank first content.
SuccessOnlyWhen(r) ==
    r.success => /\ Truthy(lookup.api_key)
                 /\ lookup.name # <<>>
                 /\ lookup.sent = 1
                 /\ lookup.http.tag = "response"
                 /\ lookup.http.status_code = 200
                 /\ ReplyContent.tag = "str"
                 /\ Strip(ReplyContent.s) # <<>>
                 /\ r.ticker = StrV(Upper(Strip(ReplyContent.s)))

\* C11 as stated: find_ticker always returns a mapping with keys success,
\* ticker, error; success = True exactly when ticker is a non-empty, stripped,
\* upper-case string and error is None, and only with a key, a name, status
\* 200 and a non-blank first content; in every other case success = False and
\* ticker = None with a non-empty error.
C11_Original ==
    LookupReturned =>
        LET r == lookup.result
        IN  /\ DOMAIN r = {"success", "ticker", "error"}
            /\ SuccessShape(r)
            /\ SuccessOnlyWhen(r)
            /\ ~r.success => /\ r.ticker = NoneV
                             /\ r.error.tag = "str"
                             /\ r.error.s # ""

\* C11: find_ticker always returns a mapping with keys success, ticker, error;
\* success = True exactly when ticker is a non-empty, stripped, upper-case
\* string and error is None, and only with a key, a name, status 200 and a
\* non-blank first content; in every other case success = False, ticker = None
\* and error is a string: one of the three fixed messages or the caught
\* exception's str(e), which is empty only when that exception carries no
\* message.
C11_LookupContract ==
    LookupReturned =>
        LET r == lookup.result
        IN  /\ DOMAIN r = {"success", "ticker", "error"}
            /\ SuccessShape(r)
            /\ SuccessOnlyWhen(r)
            /\ ~r.success =>
                  /\ r.ticker = NoneV
                  /\ r.error.tag = "str"
                  /\ r.error.s = "" =>
                        /\ lookup.sent = 1
                        /\ \/ lookup.http = HttpRaise("")
                           \/ /\ lookup.http.tag = "response"
                              /\ lookup.http.json = HttpRaise("")

\* C11 witness: with a key and a name, a 200 reply whose first content is
\* ' a' gave the ticker 'A'.
C11_Witness ==
    /\ LookupReturned
    /\ ReplyContent = StrV(<<" ", "a">>)
    /\ lookup.result = LookupSuccess(<<"A">>)

\* C12: find_ticker sends no request when the API key is missing or the
\* company name is empty; with no key the error is 'API key not configured.'
\* whatever the company name, and 'Company name is required' is returned only
\* when a key is present and the name is empty.
C12_KeyCheckFirst ==
    LookupReturned =>
        LET r == lookup.result
        IN  /\ (~Truthy(lookup.api_key) \/ lookup.name = <<>>) =>
                  lookup.sent = 0 /\ lookup.http = Unasked
            /\ ~Truthy(lookup.api_key) =>
                  r = LookupFailure("API key not configured.")
            /\ r.error = StrV("Company name is required") =>
                  Truthy(lookup.api_key) /\ lookup.name = <<>>
            /\ (Truthy(lookup.api_key) /\ lookup.name = <<>>) =>
                  r = LookupFailure("Company name is required")

\* C12 witness: a call with a key and an empty company name returned
\* 'Company name is required' without a request.
C12_Witness ==
    /\ LookupReturned
    /\ lookup.api_key = StrV(<<"k">>)
    /\ lookup.name = <<>>
    /\ lookup.sent = 0
    /\ lookup.result.error = StrV("Company name is required")

\* The company name a form request carried.
FormName(l) == l.raw[1]

\* The answer of /dashboard to a missing company name.
NameRequired ==
    [kind |-> "json",
     body |-> Dict(("success" :> FALSE) @@ ("error" :> "Company name is required"))]

\* A form request in any state: a blank name is answered at once and has
\* called nothing; any other name is fetched as its trimmed, upper-cased self.
FormRequestState(r) ==
    LET l == th[r]
        t == Upper(Strip(FormName(l)))
    IN  l.route = "form" =>
          IF Strip(FormName(l)) = <<>>
          THEN l.pc = "responded" /\ l.response = NameRequired /\ l.log = <<>>
          ELSE /\ l.ticker = t
               /\ l.response # NameRequired
               /\ l.pc # "construct" => l.ans["construct"] \in {Raise, Ret(Handle(t))}
               /\ l.pc \in GddPcs \cup {"responded"} => dash["flask"].ticker = StrV(t)

\* The step in which a form request arrives: a blank name leaves the
\* dashboard object as it was.
FormRequestStep(r) ==
    (th[r].pc \in {"idle", "responded"} /\ th'[r] # th[r] /\ th'[r].route = "form"
        /\ Strip(FormName(th'[r])) = <<>>)
    => dash' = dash

\* C13: the form route /dashboard, given a company name that is empty or only
\* whitespace, answers {'success': False, 'error': 'Company name is required'}
\* without calling the provider and leaves the dashboard's ticker, quote_data
\* and stock unchanged; for any other name it fetches with the trimmed,
\* upper-cased name as the ticker.
C13_FormRoute ==
    /\ [](\A r \in Requests : FormRequestState(r))
    /\ [][\A r \in Requests : FormRequestStep(r)]_vars

\* C13 witness: after a request filled the dashboard, a form with the name
\* ' ' was answered with 'Company name is required'.
C13_Witness ==
    /\ th["w1"].route = "form"
    /\ FormName(th["w1"]) = <<" ">>
    /\ th["w1"].response = NameRequired
    /\ Truthy(dash["flask"].quote_data)

\* Request r has been answered with a successful result.
Answered(r) ==
    /\ th[r].pc = "responded"
    /\ th[r].result.tag = "dict"
    /\ th[r].result.items["success"]

\* The record the fetch of request r obtained for its own ticker: the fallback
\* record when its fetch fell back, else the provider's record for that ticker
\* with the three optional keys.
OwnRecord(r, q) ==
    IF FellBack(r) THEN IsAppFallback(q, th[r].ticker)
    ELSE ExtendsRecord(q, Fundament(r).val)

\* The result of request r is about the ticker it was called with.
OwnResult(r) ==
    LET res == th[r].result.items
        t == th[r].ticker
    IN  /\ res["ticker"] = StrV(t)
        /\ OwnRecord(r, res["data"])
        /\ \A k \in WebLayouts :
              SubSeq(res["charts"].items[k].title, 1, Len(t)) = t
        /\ \A k \in WebLayouts : Len(res["charts"].items[k].title) = Len(t) + 1

\* C14: when two get_dashboard_data calls for different tickers run
\* concurrently on the module-level dashboard, each call's result has 'ticker'
\* equal to the ticker it was called with, 'data' equal to the record fetched
\* for that ticker, and chart titles that name that ticker.
C14_ConcurrentResults ==
    \A r \in Requests :
        (Answered(r) /\ \A o \in Requests \ {r} : th[o].ticker # th[r].ticker) =>
            OwnResult(r)

\* get_dashboard_data run to its end on dashboard d from frame l, the provider
\* answering each operation as in ans.
RECURSIVE RunGetDashboardData(_, _, _)
RunGetDashboardData(d, l, ans) ==
    IF l.pc \in FetchPcs
    THEN LET o == WebFetchStep(d, l, IF l.pc \in ProviderOps THEN ans[l.pc] ELSE Unasked)
         IN  RunGetDashboardData(o.d, o.l, ans)
    ELSE IF l.pc \in GddPcs \ {"route_return"}
         THEN RunGetDashboardData(d, WebGddStep(d, l), ans)
    ELSE l.result

\* What a fresh WebStockDashboard returns for ticker t against those answers.
FreshResult(t, ans) ==
    RunGetDashboardData(NewDashboard,
                        [NewFrame EXCEPT !.pc = "construct", !.ticker = t], ans)

\* C15: when requests are handled one at a time, the result of
\* get_dashboard_data(t) on the shared dashboard depends only on t and on the
\* provider's answers during that call: after any sequence of earlier calls
\* the returned 'ticker', 'data' and 'charts' equal those a fresh
\* WebStockDashboard would return.
C15_SequentialIsolation ==
    \A r \in Requests :
        (th[r].pc = "responded" /\ th[r].log # <<>>) =>
            th[r].result = FreshResult(th[r].ticker, th[r].ans)

\* C15 witness: a request that fell back was answered while the dashboard
\* still held the handle an earlier request stored for another ticker.
C15_Witness ==
    /\ Answered("w1")
    /\ FellBack("w1")
    /\ dash["flask"].stock.tag = "stock"
    /\ dash["flask"].stock.ticker # th["w1"].ticker

\* A script run of the Streamlit app has ended.
RunEnded == th["st"].pc = "run_done"

\* With show_data set, ticker_input is non-empty and is the dashboard's
\* ticker, and the dashboard holds a non-empty record.
ShowDataConsistent ==
    ss.show_data =>
        /\ ss.ticker_input # <<>>
        /\ dash["streamlit"].ticker = StrV(ss.ticker_input)
        /\ dash["streamlit"].quote_data.tag = "dict"
        /\ Truthy(dash["streamlit"].quote_data)

\* C16: in the Streamlit app, at the end of every script run after any
\* sequence of user actions (typing a ticker, Find Ticker, Analyze, Test API,
\* popular-ticker buttons): if show_data is True then ticker_input is
\* non-empty, equals dashboard.ticker, and dashboard.quote_data is a non-empty
\* record; show_data is False right after any change of ticker_input.
C16_ShowDataInvariant ==
    /\ [](RunEnded => ShowDataConsistent)
    /\ [][ss'.ticker_input # ss.ticker_input => ~ss'.show_data]_vars

\* C16 witness: a run ended showing the data of AAPL, which a popular-ticker
\* button put into the ticker input and Analyze then fetched.
C16_Witness ==
    /\ RunEnded
    /\ ss.show_data
    /\ ss.ticker_input = <<"A", "A", "P", "L">>
    /\ dash["streamlit"].ticker = StrV(<<"A", "A", "P", "L">>)

\* The stored handle of dashboard d is None or the one created for d.ticker.
StockMatchesTicker(d) ==
    \/ d.stock = NoneV
    \/ d.ticker.tag = "str" /\ d.stock = Handle(d.ticker.s)

\* C17: in the Streamlit and Flask dashboards, after any sequence of
\* fetch_company_data calls the stored stock handle is either None or the
\* provider handle created for the current self.ticker; it never refers to
\* another ticker, also not after a successful fetch followed by a fetch that
\* falls back.
C17_StockMatchesTicker ==
    \A t \in {"st", "w1"} :
        th[t].pc \notin FetchPcs => StockMatchesTicker(dash[FrontEndOf(t)])

\* validate_ticker rejects the non-empty ticker t.
Rejected(t) == t # <<>> /\ ~ValidateTicker(t).ok

\* A run in which Analyze was clicked is under way.
Analyzing == th["st"].route = "analyze" /\ th["st"].pc # "run_done"

\* A run with Analyze clicked on a rejected ticker calls nothing and shows
\* nothing, and a fetch under way is for an accepted ticker.
ValidatedBeforeFetch ==
    /\ (Analyzing /\ Rejected(ss.ticker_input)) =>
          /\ th["st"].pc \notin FetchPcs \cup {"returned"}
          /\ \A i \in DOMAIN th["st"].log : th["st"].log[i] \notin ProviderOps
          /\ ~ss.show_data
    /\ (prog = "streamlit" /\ th["st"].pc \in FetchPcs \cup {"returned"}) =>
          /\ ValidateTicker(th["st"].ticker).ok
          /\ th["st"].ticker = ss.ticker_input

\* The step in which Analyze is clicked on a rejected ticker leaves the
\* dashboard object as it was.
RejectedStep ==
    (th["st"].pc \in {"idle", "run_done"} /\ th'["st"].route = "analyze"
        /\ th'["st"].pc # "run_done" /\ Rejected(ss'.ticker_input))
    => dash' = dash

\* C18: in the Streamlit app the ticker is validated before any fetch:
\* clicking Analyze with a non-empty ticker that validate_ticker rejects makes
\* no provider call, leaves dashboard.ticker, dashboard.quote_data and
\* dashboard.stock unchanged and does not set show_data; fetch_company_data
\* is only ever called with a ticker that validate_ticker accepts.
C18_ValidatedBeforeFetch ==
    /\ []ValidatedBeforeFetch
    /\ [][RejectedStep]_vars
    /\ [][(Analyzing /\ Rejected(ss.ticker_input)) => (dash' = dash /\ ~ss'.show_data)]_vars

\* C18 witness: with a record on display, Analyze was clicked on 'A ' and
\* the run went on to draw the page with the validation error.
C18_Witness ==
    /\ Analyzing
    /\ ss.ticker_input = <<"A", " ">>
    /\ th["st"].pc = "render"
    /\ th["st"].log = <<"error:invalid_ticker">>
    /\ Truthy(dash["streamlit"].quote_data)

\* The letters and digits of the tickers validate_ticker is given.
LettersAndDigits == {"A", "1"}

HasOptionalKeys(q) ==
    /\ q.tag = "dict"
    /\ DOMAIN q.items # {}
    /\ OptionalKeys \subseteq DOMAIN q.items

\* C20: after any fetch_company_data call in any front-end, whatever the
\* combination of provider successes and failures (the provider returning an
\* empty or a None fundamentals record included), quote_data is a non-empty
\* mapping that contains the keys 'Description', 'Signal' and 'Ratings'.
C20_OptionalKeysPresent ==
    /\ \A t \in Threads : Returned(t) => HasOptionalKeys(QuoteData(t))
    /\ \A fe \in FrontEnds :
          ((\A t \in Threads : FrontEndOf(t) = fe => th[t].pc \notin FetchPcs)
              /\ dash[fe].quote_data # NoneV)
          => HasOptionalKeys(dash[fe].quote_data)

\* C20 witness: the terminal script's fetch returned after the provider gave
\* None for the fundamentals.
C20_Witness ==
    /\ Returned("term")
    /\ Fundament("term") = Ret(NoneV)
    /\ HasOptionalKeys(QuoteData("term"))

====
